---------------------------- MODULE Spec2Model ----------------------------
(***************************************************************************)
(* A model of simple-regex (src/src/main.rs): a recursive-descent parser   *)
(* that compiles a pattern into an NFA by Thompson's construction, and the *)
(* on-the-fly subset simulation of that NFA.                               *)
(*                                                                         *)
(* Characters are one-character strings, a pattern or an input is a        *)
(* sequence of characters.  Every character of the model is ASCII, so a    *)
(* character is one byte long and the parser's byte index i counts         *)
(* characters.  Option::None (the epsilon label, and peek at the end of    *)
(* the pattern) is the value None, which is no character.                  *)
(***************************************************************************)
EXTENDS Integers, Sequences, FiniteSets, TLC

VARIABLES pc, pattern, input, parser, compiled, verdict, kept, cl

vars == <<pc, pattern, input, parser, compiled, verdict, kept, cl>>

---------------------------------------------------------------------------
(* Bounds and the sets the inputs are drawn from.                          *)

MaxPat == 3
MaxInput == 3
MaxCallPat == 2

None == "None"

PatChars == {"a", "b", "(", ")", "|", "*"}
CallChars == {"a", "(", ")", "|", "*"}
InputChars == {"a", "b", "x"}

SeqsUpTo(S, n) == UNION {[1..k -> S] : k \in 0..n}

RefPatterns ==
    { <<"a", "*", "b", "|", "c">>,
      <<"(", "a", "|", "b", ")", "*">>,
      <<"(", "a", "*", ")", "*">>,
      <<"(", "a", "b", ")">>,
      <<"(", "a", "|">>,
      <<"(", "(", "a", ")">>,
      <<"a", ")", "(">> }

RefInputs ==
    { <<"a", "a", "a", "b">>, <<"c">>, <<"a", "a", "a", "b", "c">>,
      <<"a", "b", "b", "a">>, <<"a", "b", "x", "a">> }

Patterns == SeqsUpTo(PatChars, MaxPat) \cup RefPatterns
Inputs == SeqsUpTo(InputChars, MaxInput) \cup RefInputs
CallPatterns == SeqsUpTo(CallChars, MaxCallPat)
ClosurePatterns ==
    SeqsUpTo(CallChars, MaxPat) \cup
    { <<"(", "a", "*", ")", "*">>, <<"(", "a", "|", "b", ")", "*">> }

---------------------------------------------------------------------------
(* struct Nfa.  transitions is the HashMap<State, Vec<(Label, State)>>: a  *)
(* function from its keys to sequences of <<label, to>> pairs.             *)

Transitions_new == << >>

Nfa_new(start, accept, transitions) ==
    [start |-> start, accept |-> accept, transitions |-> transitions]

\* The value standing where the code has no Nfa (an Err result, None).
NoNfa == Nfa_new(0, 0, Transitions_new)

\* self.transitions.entry(from).or_default().push((label, to))
add_transition(nfa, from, label, to) ==
    LET t == nfa.transitions
        old == IF from \in DOMAIN t THEN t[from] ELSE << >>
    IN  [nfa EXCEPT !.transitions =
            [k \in (DOMAIN t) \cup {from} |->
                IF k = from THEN Append(old, <<label, to>>) ELSE t[k]]]

\* HashMap::extend: an entry of t2 replaces the entry of t1 with the same key.
extend(t1, t2) ==
    [k \in (DOMAIN t1) \cup (DOMAIN t2) |->
        IF k \in DOMAIN t2 THEN t2[k] ELSE t1[k]]

---------------------------------------------------------------------------
(* struct Parser.  built is a history field, not in the code: the sequence *)
(* of construction-rule calls made so far, each with its operands, its     *)
(* result and the counter when it returned.                                *)

NoParser == [s |-> << >>, i |-> 0, next_state |-> 0, built |-> << >>]

\* Faulty variant: the counter is not reset, it goes on from the last call's.
Parser_new_stale(s) ==
    [s |-> s, i |-> 0, next_state |-> parser.next_state, built |-> << >>]

Parser_new(s) ==
    [s |-> s, i |-> 0, next_state |-> 0, built |-> << >>]

\* Faulty variant: the counter is not advanced.
fresh_reuse(p) ==
    [state |-> p.next_state, p |-> p]

\* next_state is a usize; a pattern of the model allocates far fewer than
\* 2^64 states, so the increment never wraps.
fresh(p) ==
    [state |-> p.next_state, p |-> [p EXCEPT !.next_state = @ + 1]]

len_utf8(c) == 1

peek(p) == IF p.i < Len(p.s) THEN p.s[p.i + 1] ELSE None

consume(p) ==
    LET c == peek(p)
    IN  IF c = None THEN [c |-> None, p |-> p]
        ELSE [c |-> c, p |-> [p EXCEPT !.i = @ + len_utf8(c)]]

eat(p, expected) ==
    IF peek(p) = expected THEN [b |-> TRUE, p |-> consume(p).p]
    ELSE [b |-> FALSE, p |-> p]

\* Result<Nfa, String>, with the parser as the call left it.
Ok(p, nfa) == [ok |-> TRUE, nfa |-> nfa, err |-> "", p |-> p]
Err(p, msg) == [ok |-> FALSE, nfa |-> NoNfa, err |-> msg, p |-> p]

Built(p, rule, left, right, out) ==
    [ok |-> TRUE, nfa |-> out, err |-> "",
     p |-> [p EXCEPT !.built = Append(@,
              [rule |-> rule, left |-> left, right |-> right, out |-> out,
               next_state |-> p.next_state])]]

build_char(p, c) ==
    LET f1 == fresh(p)
        f2 == fresh(f1.p)
        s == f1.state
        a == f2.state
        nfa == add_transition(Nfa_new(s, a, Transitions_new), s, c, a)
    IN  Built(f2.p, "char", NoNfa, NoNfa, nfa)

\* Faulty variant: the right operand's transitions are not merged in.
build_concat_lossy(p, left, right) ==
    LET transitions == left.transitions
        nfa == add_transition(Nfa_new(left.start, right.accept, transitions),
                              left.accept, None, right.start)
    IN  Built(p, "concat", left, right, nfa)

build_concat(p, left, right) ==
    LET transitions == extend(left.transitions, right.transitions)
        nfa == add_transition(Nfa_new(left.start, right.accept, transitions),
                              left.accept, None, right.start)
    IN  Built(p, "concat", left, right, nfa)

build_alt(p, left, right) ==
    LET f1 == fresh(p)
        f2 == fresh(f1.p)
        s == f1.state
        a == f2.state
        transitions == extend(left.transitions, right.transitions)
        n0 == Nfa_new(s, a, transitions)
        n1 == add_transition(n0, s, None, left.start)
        n2 == add_transition(n1, s, None, right.start)
        n3 == add_transition(n2, left.accept, None, a)
        n4 == add_transition(n3, right.accept, None, a)
    IN  Built(f2.p, "alt", left, right, n4)

\* Faulty variant: without the s --eps--> a of zero repetitions.
build_star_plus(p, inner) ==
    LET f1 == fresh(p)
        f2 == fresh(f1.p)
        s == f1.state
        a == f2.state
        n0 == Nfa_new(s, a, inner.transitions)
        n1 == add_transition(n0, s, None, inner.start)
        n3 == add_transition(n1, inner.accept, None, inner.start)
        n4 == add_transition(n3, inner.accept, None, a)
    IN  Built(f2.p, "star", inner, NoNfa, n4)

build_star(p, inner) ==
    LET f1 == fresh(p)
        f2 == fresh(f1.p)
        s == f1.state
        a == f2.state
        n0 == Nfa_new(s, a, inner.transitions)
        n1 == add_transition(n0, s, None, inner.start)
        n2 == add_transition(n1, s, None, a)
        n3 == add_transition(n2, inner.accept, None, inner.start)
        n4 == add_transition(n3, inner.accept, None, a)
    IN  Built(f2.p, "star", inner, NoNfa, n4)

---------------------------------------------------------------------------
(* The recursive-descent productions.  A value the code binds with let and *)
(* then tests is the parameter of the operator that models the rest of the *)
(* function: parse_alt_right is parse_alt from `let right = ...` on.  A    *)
(* while loop is the recursive operator named _loop.  The ? operator is    *)
(* the IF ~r.ok THEN r, which returns the first error as it is.  A result  *)
(* r carries the parser as the call left it, r.p.                          *)

RECURSIVE parse_regex(_), parse_alt(_), parse_alt_loop(_), parse_alt_right(_, _)
RECURSIVE parse_concat(_), parse_concat_loop(_, _), parse_concat_rep(_, _)
RECURSIVE parse_rep(_), parse_primary(_)

parse_regex(p) == parse_alt(p)

\* while self.eat('|') { ... }; Ok(left), with left.nfa the code's left and
\* left.p the parser.
parse_alt_loop(left) ==
    IF eat(left.p, "|").b
    THEN parse_alt_right(left.nfa, parse_concat(eat(left.p, "|").p))
    ELSE left

\* let right = self.parse_concat()?; left = self.build_alt(left, right);
parse_alt_right(left, right) ==
    IF ~right.ok THEN right
    ELSE parse_alt_loop(build_alt(right.p, left, right.nfa))

\* let mut left = self.parse_concat()?; and the loop.
parse_alt_left(left) ==
    IF ~left.ok THEN left ELSE parse_alt_loop(left)

parse_alt(p) == parse_alt_left(parse_concat(p))

\* while let Some(c) = self.peek() { ... } and the final match; res is the
\* Option<Nfa>, [some |-> FALSE] being None.
parse_concat_loop(p, res) ==
    IF peek(p) = None \/ peek(p) = ")" \/ peek(p) = "|"
    THEN IF res.some THEN Ok(p, res.nfa) ELSE Err(p, "Expected expression")
    ELSE parse_concat_rep(res, parse_rep(p))

\* The next turn of the loop, with res = Some(r.nfa).
parse_concat_next(r) ==
    parse_concat_loop(r.p, [some |-> TRUE, nfa |-> r.nfa])

\* let rep = self.parse_rep()?; res = match res { ... }
parse_concat_rep(res, rep) ==
    IF ~rep.ok THEN rep
    ELSE IF res.some
         THEN parse_concat_next(build_concat(rep.p, res.nfa, rep.nfa))
         ELSE parse_concat_next(rep)

parse_concat(p) == parse_concat_loop(p, [some |-> FALSE, nfa |-> NoNfa])

\* let mut nfa = self.parse_primary()?; if self.eat('*') { ... }; Ok(nfa)
parse_rep_star(r) ==
    IF ~r.ok THEN r
    ELSE IF eat(r.p, "*").b THEN build_star(eat(r.p, "*").p, r.nfa)
    ELSE r

parse_rep(p) == parse_rep_star(parse_primary(p))

\* Faulty variant: the ')' is looked at but not consumed.
parse_primary_keep(r) ==
    IF ~r.ok THEN r
    ELSE IF peek(r.p) # ")" THEN Err(r.p, "Expected ')'")
    ELSE Ok(r.p, r.nfa)

\* Faulty variant: a missing ')' is not an error.
parse_primary_lax(r) ==
    IF ~r.ok THEN r
    ELSE Ok(eat(r.p, ")").p, r.nfa)

\* let nfa = self.parse_regex()?; if !self.eat(')') { return Err(..) }; Ok(nfa)
parse_primary_close(r) ==
    IF ~r.ok THEN r
    ELSE IF ~eat(r.p, ")").b THEN Err(r.p, "Expected ')'")
    ELSE Ok(eat(r.p, ")").p, r.nfa)

parse_primary(p) ==
    CASE peek(p) = "(" -> parse_primary_close(parse_regex(consume(p).p))
      [] peek(p) \in {"*", "|", ")", None} -> Err(p, "Unexpected token")
      [] OTHER -> build_char(consume(p).p, peek(p))

\* Faulty variant: characters left after the expression are not an error.
regex_to_nfa_no_trailing(r) == r

\* let nfa = p.parse_regex()?; if p.peek().is_some() { return Err(..) }; Ok(nfa)
regex_to_nfa_end(r) ==
    IF ~r.ok THEN r
    ELSE IF peek(r.p) # None THEN Err(r.p, "Unexpected trailing characters")
    ELSE r

regex_to_nfa(pat) == regex_to_nfa_end(parse_regex(Parser_new(pat)))

---------------------------------------------------------------------------
(* Nfa::eps_closure, Nfa::get_move, Nfa::simulate.                         *)

Pairs(nfa, state) ==
    IF state \in DOMAIN nfa.transitions THEN nfa.transitions[state] ELSE << >>

\* Faulty variant: every transition is followed, whatever its label.
RECURSIVE EpsFor_any_label(_, _, _)
EpsFor_any_label(pairs, k, st) ==
    IF k > Len(pairs) THEN st
    ELSE LET s == pairs[k][2]
         IN  IF s \notin st.ec
             THEN EpsFor_any_label(pairs, k + 1,
                      [ec |-> st.ec \cup {s}, stack |-> Append(st.stack, s)])
             ELSE EpsFor_any_label(pairs, k + 1, st)

\* The for loop of eps_closure over the pairs of the popped state, from the
\* k-th pair on: st is [ec, stack], stack the states pushed and not yet popped.
RECURSIVE EpsFor(_, _, _)
EpsFor(pairs, k, st) ==
    IF k > Len(pairs) THEN st
    ELSE LET label == pairs[k][1]
             s == pairs[k][2]
         IN  IF label = None /\ s \notin st.ec
             THEN EpsFor(pairs, k + 1,
                      [ec |-> st.ec \cup {s}, stack |-> Append(st.stack, s)])
             ELSE EpsFor(pairs, k + 1, st)

\* One iteration of the while loop.  The stack starts as the seed set in the
\* order the HashSet iterates it, which is unspecified: the seeds not yet
\* popped are the set st.seeds, below the pushed states st.stack, and a pop
\* from an empty st.stack takes any seed (state must be a member).
EpsPop(nfa, st, state) ==
    IF st.stack # << >>
    THEN LET top == st.stack[Len(st.stack)]
             rest == SubSeq(st.stack, 1, Len(st.stack) - 1)
             r == EpsFor(Pairs(nfa, top), 1, [ec |-> st.ec, stack |-> rest])
         IN  [ec |-> r.ec, seeds |-> st.seeds, stack |-> r.stack]
    ELSE LET r == EpsFor(Pairs(nfa, state), 1, [ec |-> st.ec, stack |-> << >>])
         IN  [ec |-> r.ec, seeds |-> st.seeds \ {state}, stack |-> r.stack]

EpsStart(states) == [ec |-> states, seeds |-> states, stack |-> << >>]

EpsDone(st) == st.stack = << >> /\ st.seeds = {}

RECURSIVE eps_closure_loop(_, _)
eps_closure_loop(nfa, st) ==
    IF EpsDone(st) THEN st.ec
    ELSE eps_closure_loop(nfa, EpsPop(nfa, st,
             IF st.seeds = {} THEN 0 ELSE CHOOSE x \in st.seeds : TRUE))

eps_closure(nfa, states) == eps_closure_loop(nfa, EpsStart(states))

\* Faulty variant: any character label matches the symbol.
get_move_any(nfa, states, symbol) ==
    UNION { { Pairs(nfa, from)[k][2] :
                k \in { j \in 1..Len(Pairs(nfa, from)) :
                          Pairs(nfa, from)[j][1] # None } } :
            from \in states }

get_move(nfa, states, symbol) ==
    UNION { { Pairs(nfa, from)[k][2] :
                k \in { j \in 1..Len(Pairs(nfa, from)) :
                          /\ Pairs(nfa, from)[j][1] # None
                          /\ Pairs(nfa, from)[j][1] = symbol } } :
            from \in states }

RECURSIVE simulate_loop(_, _, _, _)
simulate_loop(nfa, inp, k, states) ==
    IF k > Len(inp) THEN states
    ELSE simulate_loop(nfa, inp, k + 1,
             eps_closure(nfa, get_move(nfa, states, inp[k])))

simulate(nfa, inp) ==
    nfa.accept \in simulate_loop(nfa, inp, 1, eps_closure(nfa, {nfa.start}))

---------------------------------------------------------------------------
(* Spec: one pattern, compiled by regex_to_nfa and then simulated on an    *)
(* input, or handed with an input to regex_match.                          *)

NoResult == [ok |-> FALSE, nfa |-> NoNfa, err |-> ""]
NoKept == [some |-> FALSE, pattern |-> << >>, result |-> NoResult, next_state |-> 0]
NoCl == [ec |-> {}, seeds |-> {}, stack |-> << >>, seed |-> {}, pushed |-> << >>]

Result(r) == [ok |-> r.ok, nfa |-> r.nfa, err |-> r.err]

Init ==
    /\ pc = "start"
    /\ pattern \in Patterns
    /\ input = << >>
    /\ parser = NoParser
    /\ compiled = NoResult
    /\ verdict = FALSE
    /\ kept = NoKept
    /\ cl = NoCl

RegexToNfa ==
    /\ pc = "start"
    /\ LET r == regex_to_nfa(pattern)
       IN  /\ parser' = r.p
           /\ compiled' = Result(r)
           /\ pc' = IF r.ok THEN "compiled" ELSE "failed"
    /\ UNCHANGED <<pattern, input, verdict, kept, cl>>

Simulate ==
    /\ pc = "compiled"
    /\ \E w \in Inputs :
          /\ input' = w
          /\ verdict' = simulate(compiled.nfa, w)
    /\ pc' = "done"
    /\ UNCHANGED <<pattern, parser, compiled, kept, cl>>

\* regex_match: unwrap() panics on an Err, and the process aborts.
RegexMatch ==
    /\ pc = "start"
    /\ \E w \in Inputs :
          LET r == regex_to_nfa(pattern)
          IN  /\ input' = w
              /\ parser' = r.p
              /\ compiled' = Result(r)
              /\ IF r.ok
                 THEN /\ verdict' = simulate(r.nfa, w)
                      /\ pc' = "matched"
                 ELSE /\ verdict' = FALSE
                      /\ pc' = "panicked"
    /\ UNCHANGED <<pattern, kept, cl>>

Next == RegexToNfa \/ Simulate \/ RegexMatch

Spec == Init /\ [][Next]_vars

---------------------------------------------------------------------------
(* The regular language of a pattern, read off the grammar                 *)
(*   alternation := concatenation ('|' concatenation)*                     *)
(*   concatenation := repetition+      repetition := primary '*'?          *)
(*   primary := '(' regex ')' | LITERAL                                    *)
(* by splitting the pattern text, for a pattern the grammar derives: at    *)
(* its last '|' outside parentheses, else before its last repetition.      *)

Count(p, lo, hi, ch) == Cardinality({j \in lo..hi : p[j] = ch})

TopBars(p) ==
    {k \in 1..Len(p) :
        p[k] = "|" /\ Count(p, 1, k - 1, "(") = Count(p, 1, k - 1, ")")}

MaxOf(S) == CHOOSE x \in S : \A y \in S : y <= x

\* The '(' that the ')' at position e closes.
OpenOf(p, e) ==
    MaxOf({k \in 1..e : p[k] = "(" /\ Count(p, k, e, "(") = Count(p, k, e, ")")})

RECURSIVE InAlt(_, _), InCat(_, _), InRep(_, _, _), InPrim(_, _)

InPrim(prim, w) ==
    IF Len(prim) = 1 THEN w = prim
    ELSE InAlt(SubSeq(prim, 2, Len(prim) - 1), w)

InRep(prim, starred, w) ==
    IF ~starred THEN InPrim(prim, w)
    ELSE \/ w = << >>
         \/ \E j \in 1..Len(w) :
               /\ InPrim(prim, SubSeq(w, 1, j))
               /\ InRep(prim, TRUE, SubSeq(w, j + 1, Len(w)))

InCat(p, w) ==
    LET n == Len(p)
        starred == p[n] = "*"
        e == IF starred THEN n - 1 ELSE n
        b == IF p[e] = ")" THEN OpenOf(p, e) ELSE e
        prim == SubSeq(p, b, e)
    IN  IF b = 1 THEN InRep(prim, starred, w)
        ELSE \E j \in 0..Len(w) :
                /\ InCat(SubSeq(p, 1, b - 1), SubSeq(w, 1, j))
                /\ InRep(prim, starred, SubSeq(w, j + 1, Len(w)))

InAlt(p, w) ==
    IF TopBars(p) = {} THEN InCat(p, w)
    ELSE LET k == MaxOf(TopBars(p))
         IN  \/ InAlt(SubSeq(p, 1, k - 1), w)
             \/ InCat(SubSeq(p, k + 1, Len(p)), w)

Simulated == pc \in {"done", "matched"}
Compiled == pc \in {"compiled", "failed", "done", "matched", "panicked"}

PatScenario == <<"a", "*", "b", "|", "c">>
PatAbStar == <<"(", "a", "|", "b", ")", "*">>

\* C1: for a pattern that compiles, simulate accepts an input exactly when
\* the whole input is in the pattern's regular language under the grammar's
\* precedence; a*b|c accepts aaab and c and rejects aaabc.
C1_MatchesLanguage ==
    Simulated =>
        /\ verdict = InAlt(pattern, input)
        /\ pattern = PatScenario /\ input = <<"a", "a", "a", "b">> => verdict
        /\ pattern = PatScenario /\ input = <<"c">> => verdict
        /\ pattern = PatScenario /\ input = <<"a", "a", "a", "b", "c">> => ~verdict

C1_Witness ==
    /\ pc = "done"
    /\ pattern = PatScenario
    /\ input = <<"a", "a", "a", "b">>
    /\ verdict

\* C2: (a|b)* accepts every string over {a,b}, the empty one too, and
\* rejects every string with another character.
C2_AbStar ==
    Simulated /\ pattern = PatAbStar =>
        verdict = (\A k \in 1..Len(input) : input[k] \in {"a", "b"})

C2_Witness ==
    /\ pc = "done"
    /\ pattern = PatAbStar
    /\ input = <<"a", "b", "b", "a">>
    /\ verdict

Paren(p) == <<"(">> \o p \o <<")">>

\* C3: when p compiles, "(p)" compiles too and accepts what p accepts.
C3_ParenTransparent ==
    compiled.ok /\ pc \in {"compiled", "done"} =>
        LET r == regex_to_nfa(Paren(pattern))
        IN  /\ r.ok
            /\ pc = "done" => simulate(r.nfa, input) = verdict

C3_Witness ==
    /\ pc = "done"
    /\ pattern = <<"a", "b">>
    /\ input = <<"a", "b">>
    /\ verdict
    /\ simulate(regex_to_nfa(<<"(", "a", "b", ")">>).nfa, input)

Fails(msg) == ~compiled.ok /\ compiled.err = msg /\ compiled.nfa = NoNfa

\* C5: "" fails with "Expected expression", "(a" with "Expected ')'", "a)"
\* with "Unexpected trailing characters" and "*a" with "Unexpected token",
\* and no automaton is produced.
C5_ReferenceErrors ==
    Compiled =>
        /\ pattern = << >> => Fails("Expected expression")
        /\ pattern = <<"(", "a">> => Fails("Expected ')'")
        /\ pattern = <<"a", ")">> => Fails("Unexpected trailing characters")
        /\ pattern = <<"*", "a">> => Fails("Unexpected token")

C5_Witness ==
    /\ pc = "failed"
    /\ pattern = <<"a", ")">>
    /\ compiled.err = "Unexpected trailing characters"

\* The '(' at position k has no matching ')'.
Unmatched(p, k) ==
    /\ p[k] = "("
    /\ \A j \in k + 1..Len(p) : Count(p, k, j, "(") > Count(p, k, j, ")")

HasUnclosedGroup(p) == \E k \in 1..Len(p) : Unmatched(p, k)

\* C6 as stated: every pattern with an unmatched '(' fails with
\* "Expected ')'", whatever follows the '('.
C6_AlwaysUnclosedGroup ==
    Compiled /\ HasUnclosedGroup(pattern) => Fails("Expected ')'")

\* C6, amended: every pattern with an unmatched '(' fails; it fails with
\* "Expected ')'" when what precedes the '(' is empty or compiles on its own
\* and what follows it compiles on its own; "(" and "(a|" fail with
\* "Expected expression", the first error met.
C6_UnclosedGroup ==
    Compiled /\ HasUnclosedGroup(pattern) =>
        /\ ~compiled.ok
        /\ \A k \in 1..Len(pattern) :
              ( /\ pattern[k] = "("
                /\ k = 1 \/ regex_to_nfa(SubSeq(pattern, 1, k - 1)).ok
                /\ regex_to_nfa(SubSeq(pattern, k + 1, Len(pattern))).ok )
              => Fails("Expected ')'")
        /\ pattern = <<"(">> => Fails("Expected expression")
        /\ pattern = <<"(", "a", "|">> => Fails("Expected expression")

C6_Witness ==
    /\ pc = "failed"
    /\ pattern = <<"a", "(", "b">>
    /\ compiled.err = "Expected ')'"

\* C7: regex_match hands a compilation failure back as an error value and
\* does not abort, and on success returns simulate's verdict.
C7_MatchReturnsError ==
    /\ pc # "panicked"
    /\ pc = "matched" => compiled.ok /\ verdict = simulate(compiled.nfa, input)

States(nfa) ==
    {nfa.start, nfa.accept} \cup (DOMAIN nfa.transitions) \cup
    UNION { {nfa.transitions[f][k][2] : k \in 1..Len(nfa.transitions[f])} :
            f \in DOMAIN nfa.transitions }

\* The transitions of an automaton as a set of <<from, label, to>>.
TransSet(nfa) ==
    UNION { {<<f, nfa.transitions[f][k][1], nfa.transitions[f][k][2]>> :
                k \in 1..Len(nfa.transitions[f])} :
            f \in DOMAIN nfa.transitions }

RECURSIVE SumLen(_, _)
SumLen(t, keys) ==
    IF keys = {} THEN 0
    ELSE LET f == CHOOSE f \in keys : TRUE
         IN  Len(t[f]) + SumLen(t, keys \ {f})

TransCount(nfa) == SumLen(nfa.transitions, DOMAIN nfa.transitions)

Rules(b) == {b[k].rule : k \in 1..Len(b)}

\* C9: every fragment a construction rule returns has start # accept, and
\* all its states are below the parser's next_state at that moment.
C9_FragmentInvariant ==
    \A k \in 1..Len(parser.built) :
        LET e == parser.built[k]
        IN  /\ e.out.start # e.out.accept
            /\ \A q \in States(e.out) : 0 <= q /\ q < e.next_state

C9_Witness ==
    /\ pc = "compiled"
    /\ Rules(parser.built) = {"char", "concat", "alt", "star"}

Added(e) ==
    IF e.rule = "concat"
    THEN {<<e.left.accept, None, e.right.start>>}
    ELSE {<<e.out.start, None, e.left.start>>,
          <<e.out.start, None, e.right.start>>,
          <<e.left.accept, None, e.out.accept>>,
          <<e.right.accept, None, e.out.accept>>}

\* C10: the operands of build_concat and build_alt have disjoint states, and
\* the result's transitions are the left's, the right's and the added
\* epsilon transitions, none lost.
C10_MergeLosesNothing ==
    \A k \in 1..Len(parser.built) :
        LET e == parser.built[k]
        IN  e.rule \in {"concat", "alt"} =>
              /\ States(e.left) \cap States(e.right) = {}
              /\ TransSet(e.out) =
                    TransSet(e.left) \cup TransSet(e.right) \cup Added(e)
              /\ TransCount(e.out) =
                    TransCount(e.left) + TransCount(e.right) + Cardinality(Added(e))

C10_Witness ==
    /\ pc = "compiled"
    /\ \E k \in 1..Len(parser.built) :
          /\ parser.built[k].rule = "concat"
          /\ TransCount(parser.built[k].left) > 1
    /\ \E k \in 1..Len(parser.built) : parser.built[k].rule = "alt"

---------------------------------------------------------------------------
(* CallSpec: a caller that calls regex_to_nfa again and again, with any    *)
(* patterns, and may keep the result of a call to compare a later one with.*)
(* parser is the memory the call's Parser lives in, as the call left it.   *)

CallInit ==
    /\ pc = "idle"
    /\ pattern = << >>
    /\ input = << >>
    /\ parser = NoParser
    /\ compiled = NoResult
    /\ verdict = FALSE
    /\ kept = NoKept
    /\ cl = NoCl

CallRegexToNfa ==
    /\ \E q \in CallPatterns, keep \in BOOLEAN :
          LET r == regex_to_nfa(q)
          IN  /\ pattern' = q
              /\ parser' = r.p
              /\ compiled' = Result(r)
              /\ kept' = IF keep /\ pc = "called"
                         THEN [some |-> TRUE, pattern |-> pattern,
                               result |-> compiled,
                               next_state |-> parser.next_state]
                         ELSE kept
    /\ pc' = "called"
    /\ UNCHANGED <<input, verdict, cl>>

CallNext == CallRegexToNfa

CallSpec == CallInit /\ [][CallNext]_vars

\* C4: after any calls, a call of regex_to_nfa with the pattern of a kept
\* call has the kept outcome (the same error, or success with an automaton
\* accepting the same inputs), and its states are numbered from 0: the
\* counter starts again with each call.
C4_Deterministic ==
    pc = "called" =>
        /\ compiled.ok => States(compiled.nfa) = 0..(parser.next_state - 1)
        /\ kept.some /\ kept.pattern = pattern =>
              /\ compiled.ok = kept.result.ok
              /\ compiled.err = kept.result.err
              /\ parser.next_state = kept.next_state
              /\ \A w \in Inputs :
                    simulate(compiled.nfa, w) = simulate(kept.result.nfa, w)

C4_Witness ==
    /\ pc = "called"
    /\ kept.some
    /\ kept.pattern = pattern
    /\ pattern = <<"a", "*">>
    /\ compiled.ok

---------------------------------------------------------------------------
(* ClosureSpec: eps_closure, one iteration of its while loop at a time, on *)
(* the automaton of a pattern that compiles and any set of its states.     *)
(* cl.seed is the argument; cl.pushed counts, for each state, how often it *)
(* was put on the stack (the seeding included).  The loop is straight-line *)
(* code of one thread: a step that can be taken is taken (WF).             *)

Range(f) == {f[k] : k \in DOMAIN f}

Occurs(f, q) == Cardinality({k \in DOMAIN f : f[k] = q})

ClosureInit ==
    /\ pc = "closure"
    /\ pattern \in {p \in ClosurePatterns : regex_to_nfa(p).ok}
    /\ input = << >>
    /\ parser = NoParser
    /\ compiled = Result(regex_to_nfa(pattern))
    /\ verdict = FALSE
    /\ kept = NoKept
    /\ \E S \in SUBSET States(compiled.nfa) :
          cl = [ec |-> S, seeds |-> S, stack |-> << >>, seed |-> S,
                pushed |-> [q \in S |-> 1]]

EpsClosurePop ==
    /\ pc = "closure"
    /\ ~EpsDone(cl)
    /\ \E state \in (IF cl.stack = << >> THEN cl.seeds
                     ELSE {cl.stack[Len(cl.stack)]}) :
          LET st == EpsPop(compiled.nfa, cl, state)
              base == IF cl.stack = << >> THEN 0 ELSE Len(cl.stack) - 1
              new == SubSeq(st.stack, base + 1, Len(st.stack))
          IN  cl' = [ec |-> st.ec, seeds |-> st.seeds, stack |-> st.stack,
                     seed |-> cl.seed,
                     pushed |-> [q \in (DOMAIN cl.pushed) \cup Range(new) |->
                                   (IF q \in DOMAIN cl.pushed
                                    THEN cl.pushed[q] ELSE 0) + Occurs(new, q)]]
    /\ UNCHANGED <<pc, pattern, input, parser, compiled, verdict, kept>>

EpsClosureReturn ==
    /\ pc = "closure"
    /\ EpsDone(cl)
    /\ pc' = "closed"
    /\ UNCHANGED <<pattern, input, parser, compiled, verdict, kept, cl>>

ClosureNext == EpsClosurePop \/ EpsClosureReturn

ClosureSpec == ClosureInit /\ [][ClosureNext]_vars /\ WF_vars(ClosureNext)

EpsTargets(nfa, X) ==
    {t[3] : t \in {u \in TransSet(nfa) : u[1] \in X /\ u[2] = None}}

\* The least set that holds S and is closed under epsilon transitions.
RECURSIVE LeastClosed(_, _)
LeastClosed(nfa, S) ==
    LET T == S \cup EpsTargets(nfa, S)
    IN  IF T = S THEN S ELSE LeastClosed(nfa, T)

C8_Safe ==
    /\ \A q \in DOMAIN cl.pushed : cl.pushed[q] <= 1
    /\ pc = "closed" =>
          /\ cl.ec = LeastClosed(compiled.nfa, cl.seed)
          /\ cl.seed \subseteq cl.ec
          /\ EpsTargets(compiled.nfa, cl.ec) \subseteq cl.ec
          /\ cl.seed = {} => cl.ec = {}

\* C8: on every compiled automaton and every seed set, eps_closure
\* terminates, puts each state on its stack at most once, and returns the
\* least superset of the seeds closed under epsilon transitions (the empty
\* set for no seeds).
C8_EpsClosure == []C8_Safe /\ <>(pc = "closed")

C8_Witness ==
    /\ pc = "closed"
    /\ pattern = <<"(", "a", "*", ")", "*">>
    /\ cl.seed = {compiled.nfa.start}
    /\ Cardinality(cl.ec) = 5

===========================================================================
